---- MODULE Spec2Model ----
(***************************************************************************)
(* LSP-25 relay-call execution engine of the Universal Profile skill:      *)
(* message encoding, EIP-191 v0 digest, signing and local verification,    *)
(* and the relay / direct execution router.                                *)
(***************************************************************************)
EXTENDS Integers, Sequences, FiniteSets, TLC

(***************************************************************************)
(* Bounds of the model                                                     *)
(***************************************************************************)
MaxPayloadLen == 2
MaxInitNonce == 1

(***************************************************************************)
(* Program constants                                                       *)
(***************************************************************************)
LSP25_VERSION == 25
LUKSO_CHAIN_ID == 42
\* the chain the testnet relayer (RELAYER_URL_TESTNET) submits to
LUKSO_TESTNET_CHAIN_ID == 4201
ADDRESS_BYTES == 20

\* The private key of the credentials file and the address it derives.
PRIVATE_KEY == "key1"
KeyAddress == "ctrl"

\* The universal profile and the key managers it may be owned by.
UP_ADDRESS == "up"
KeyManagers == {"km1", "km2"}
Channels == {0, 1}

\* Bits of the permission mask of a controller (LSP6).
SUPER_TRANSFERVALUE == 256
TRANSFERVALUE == 512
SIGN == 2097152
EXECUTE_RELAY_CALL == 4194304
\* the permissions the controller is documented to hold (0x422600)
CURRENT_PERMISSIONS == 4334080

RECURSIVE BitAnd(_, _)
\* a & b of two BigInts
BitAnd(a, b) ==
  IF a = 0 \/ b = 0 THEN 0
  ELSE (a % 2) * (b % 2) + 2 * BitAnd(a \div 2, b \div 2)

\* (BigInt(permissions) & BigInt(bit)) !== 0n
HasPermission(mask, bit) == BitAnd(mask, bit) # 0

\* An address as the program holds it: the account it denotes and whether
\* the hex string is written in lower case or in checksum case.
Addr(id, lower) == [id |-> id, lower |-> lower]

(***************************************************************************)
(* Bytes                                                                   *)
(***************************************************************************)
RECURSIVE BE(_, _)
\* n as k big-endian bytes (the k low-order bytes of n)
BE(n, k) == IF k = 0 THEN <<>> ELSE BE(n \div 256, k - 1) \o <<n % 256>>

RECURSIVE FromBE(_)
\* the integer a big-endian byte string denotes
FromBE(bs) ==
  IF Len(bs) = 0 THEN 0
  ELSE 256 * FromBE(SubSeq(bs, 1, Len(bs) - 1)) + bs[Len(bs)]

\* A nonce is the uint256 (channel << 128) | sequence number; it is kept as
\* its two 128-bit halves.
Nonce(ch, seq) == [ch |-> ch, seq |-> seq]
NonceBE(nonce) == BE(nonce.ch, 16) \o BE(nonce.seq, 16)

\* ethers.getBytes of an address: its 20 bytes, whatever the letter case.
AddrSeed(id) ==
  CASE id = "km1" -> 16
    [] id = "km2" -> 64
    [] id = "ctrl" -> 128
    [] id = "up" -> 192
    [] OTHER -> 224
GetBytes(address) == [i \in 1..ADDRESS_BYTES |-> AddrSeed(address.id) + i]

\* new Uint8Array(n)
Uint8Array(n) == [i \in 1..n |-> 0]
\* target.set(src, offset)
U8Set(target, src, offset) ==
  [i \in 1..Len(target) |->
     IF i > offset /\ i <= offset + Len(src) THEN src[i - offset] ELSE target[i]]

\* keccak256: collision-free, so a digest is identified with its pre-image
Keccak256(bytes) == [keccak |-> bytes]

NoBytes == <<>>

(***************************************************************************)
(* Message Encoder, Digest Hasher                                          *)
(***************************************************************************)
ValuelessLSP25Message(chainId, nonce, validityTimestamps, value, payload) ==
  BE(LSP25_VERSION, 32) \o BE(chainId, 32) \o NonceBE(nonce)
    \o BE(validityTimestamps, 32) \o BE(0, 32) \o payload

SwappedLSP25Message(chainId, nonce, validityTimestamps, value, payload) ==
  BE(LSP25_VERSION, 32) \o NonceBE(nonce) \o BE(chainId, 32)
    \o BE(validityTimestamps, 32) \o BE(value, 32) \o payload

\* solidityPacked(['uint256' x 5, 'bytes'], [...])
createLSP25Message(chainId, nonce, validityTimestamps, value, payload) ==
  BE(LSP25_VERSION, 32) \o BE(chainId, 32) \o NonceBE(nonce)
    \o BE(validityTimestamps, 32) \o BE(value, 32) \o payload

OverlappingHash(validatorAddress, data) ==
  LET preamble == <<25, 0>>
      validatorBytes == GetBytes(validatorAddress)
      m0 == Uint8Array(Len(preamble) + Len(validatorBytes) + Len(data))
      m1 == U8Set(m0, preamble, 0)
      m2 == U8Set(m1, validatorBytes, Len(preamble))
      m3 == U8Set(m2, data, Len(preamble))
  IN Keccak256(m3)

UnprefixedHash(validatorAddress, data) ==
  Keccak256(GetBytes(validatorAddress) \o data)

hashDataWithIntendedValidator(validatorAddress, data) ==
  LET preamble == <<25, 0>>
      validatorBytes == GetBytes(validatorAddress)
      dataBytes == data
      m0 == Uint8Array(Len(preamble) + Len(validatorBytes) + Len(dataBytes))
      m1 == U8Set(m0, preamble, 0)
      m2 == U8Set(m1, validatorBytes, Len(preamble))
      m3 == U8Set(m2, dataBytes, Len(preamble) + Len(validatorBytes))
  IN Keccak256(m3)

NoDigest == Keccak256(NoBytes)

(***************************************************************************)
(* Signer & Local Verifier                                                 *)
(***************************************************************************)
\* The address a private key derives.
AddressOf(key) ==
  CASE key = PRIVATE_KEY -> KeyAddress
    [] key = "key2" -> "ctrl2"
    [] OTHER -> "nobody"

\* new ethers.SigningKey(key).sign(digest), serialized: signs the digest as
\* it is, without any further prefix.
SigningKeySign(key, digest) == [key |-> key, digest |-> digest, form |-> "raw"]

\* Signature.from(sig).serialized: r and s as 32 bytes each, then v (27 or
\* 28) as one byte; the curve values stand for the key and the digest signed
SigR(signature) == BE(AddrSeed(AddressOf(signature.key)), 32)
SigS(signature) == BE(Len(signature.digest.keccak), 32)
SigV(signature) == 27 + (Len(signature.digest.keccak) % 2)
Serialized(signature) == SigR(signature) \o SigS(signature) \o <<SigV(signature)>>

\* signMessage: signs the "\x19Ethereum Signed Message" wrapping of the bytes.
SignMessage(key, digest) == [key |-> key, digest |-> digest, form |-> "prefixed"]

\* ethers.recoverAddress(digest, signature): the signer's checksum address
\* when the signature is over that digest, an unrelated address otherwise.
recoverAddress(digest, signature) ==
  IF signature.form = "raw" /\ signature.digest = digest
  THEN Addr(AddressOf(signature.key), FALSE)
  ELSE Addr("stranger", FALSE)

toLowerCase(address) == Addr(address.id, TRUE)

VerifyWithoutValidator(keyManagerAddress, encodedMessage, signature) ==
  recoverAddress(Keccak256(encodedMessage), signature)

PrefixedLSP25Signature(keyManagerAddress, encodedMessage, privateKey) ==
  SignMessage(privateKey, hashDataWithIntendedValidator(keyManagerAddress, encodedMessage))

signLSP25Message(keyManagerAddress, encodedMessage, privateKey) ==
  SigningKeySign(privateKey, hashDataWithIntendedValidator(keyManagerAddress, encodedMessage))

verifyLSP25Signature(keyManagerAddress, encodedMessage, signature) ==
  recoverAddress(hashDataWithIntendedValidator(keyManagerAddress, encodedMessage), signature)

\* viem encodePacked of five uint256 and bytes
encodePacked(version, chainId, nonce, validityTimestamps, value, payload) ==
  BE(version, 32) \o BE(chainId, 32) \o NonceBE(nonce)
    \o BE(validityTimestamps, 32) \o BE(value, 32) \o payload

\* signRelayCall of the viem module: the value slot is always 0n; the
\* EIP191Signer hashes with the intended validator and signs the raw hash.
signRelayCall(keyManagerAddress, nonce, validityTimestamps, payload) ==
  SigningKeySign(PRIVATE_KEY,
    hashDataWithIntendedValidator(keyManagerAddress,
      encodePacked(LSP25_VERSION, LUKSO_CHAIN_ID, nonce, validityTimestamps, 0, payload)))

\* ethers.keccak256(ethers.concat(['0x19', '0x00', kmAddress, encodedMessage])):
\* concat takes the bytes of each item and joins them in order
InlineDigest(kmAddress, encodedMessage) ==
  Keccak256(<<25>> \o <<0>> \o GetBytes(kmAddress) \o encodedMessage)

\* the inline signing of the scripts: solidityPacked([25, 42, nonce, 0n, 0n,
\* payload]), keccak256(concat(['0x19', '0x00', kmAddress, encodedMessage]))
scriptSign(kmAddress, nonce, payload) ==
  SigningKeySign(PRIVATE_KEY,
    InlineDigest(kmAddress, encodePacked(25, 42, nonce, 0, 0, payload)))

\* Number(nonce) / parseInt(nonce.toString()): an IEEE double keeps 53 bits,
\* so the sequence half of a nonce of a non-zero channel is rounded away.
NumberOf(nonce) == IF nonce.ch = 0 THEN nonce ELSE Nonce(nonce.ch, 0)

(***************************************************************************)
(* Entry points and their options                                          *)
(***************************************************************************)
E_ROUTER == "executeRelayCall"
E_RELAY == "executeRelayCallRelay"
E_DIRECT == "executeRelayCallDirect"
E_DIRECT_VIEM == "viem.executeRelayCallDirect"
E_VIA_RELAYER == "viem.executeRelayCallViaRelayer"
E_TRANSFER == "transferViaRelay"
E_TEST == "test-relay-simple"
E_SEND_LYX == "sendLYX"
E_FOLLOW == "followProfile"

\* the functions an invocation runs through
RelayFns == {"relayE", "relayV", "transfer", "test"}
DirectFns == {"directE", "directV"}
ViemFns == {"directV", "relayV"}

ExecPayloads == {<<0>>, <<255, 0>>}
SCRIPT_PAYLOAD == <<255, 0>>
\* up.execute(0, to, amount, '0x'): a transfer of native value out of the account
LYX_PAYLOAD == <<0, 255>>
TransfersValue(payload) == payload = LYX_PAYLOAD
\* up.execute(0, LSP26_FOLLOWER_SYSTEM, 0, follow(targetAddress))
FOLLOW_PAYLOAD == <<255, 255>>
\* ethers.parseUnits(humanAmount, decimals) of the transfer script
TransferAmount == 5

Invocation(entry, useRelay, channel, value, validityTimestamps, payload) ==
  [entry |-> entry, useRelay |-> useRelay, channel |-> channel, value |-> value,
   validityTimestamps |-> validityTimestamps, payload |-> payload,
   useTestnet |-> FALSE]

\* every call the entry points accept (the scripts take no options)
AllInvocations ==
  {Invocation(E_ROUTER, u, c, v, t, pl) :
     u \in BOOLEAN, c \in Channels, v \in {0, 1}, t \in {0, 300}, pl \in ExecPayloads}
  \cup {Invocation(e, FALSE, c, v, t, pl) :
     e \in {E_RELAY, E_DIRECT}, c \in Channels, v \in {0, 1}, t \in {0, 300},
     pl \in ExecPayloads}
  \cup {Invocation(e, FALSE, c, 0, t, pl) :
     e \in {E_DIRECT_VIEM, E_VIA_RELAYER}, c \in Channels, t \in {0, 300},
     pl \in ExecPayloads}
  \cup {Invocation(e, FALSE, 0, 0, 0, SCRIPT_PAYLOAD) : e \in {E_TRANSFER, E_TEST}}
  \cup {Invocation(E_SEND_LYX, FALSE, 0, 0, 0, LYX_PAYLOAD)}
  \cup {Invocation(E_FOLLOW, FALSE, 0, 0, 0, FOLLOW_PAYLOAD)}
  \cup {[Invocation(E_RELAY, FALSE, 0, 0, 0, SCRIPT_PAYLOAD) EXCEPT !.useTestnet = TRUE]}

\* the calls explored when two invocations run concurrently
ConcurrentInvocations ==
  {Invocation(E_ROUTER, u, 0, 0, 0, SCRIPT_PAYLOAD) : u \in BOOLEAN}
  \cup {Invocation(e, FALSE, 0, 0, 0, SCRIPT_PAYLOAD) :
     e \in {E_RELAY, E_DIRECT, E_DIRECT_VIEM, E_VIA_RELAYER, E_TRANSFER, E_TEST}}
  \cup {Invocation(e, FALSE, 1, 0, 0, SCRIPT_PAYLOAD) : e \in {E_RELAY, E_DIRECT}}

\* the calls a menu offers
Menu(name) ==
  CASE name = "all" -> AllInvocations
    [] name = "concurrent" -> ConcurrentInvocations
    [] OTHER -> {}

StartsDirect(entry, useRelay) ==
  CASE entry = E_ROUTER -> "directE"
    [] entry = E_RELAY -> "relayE"
    [] entry = E_DIRECT -> "directE"
    [] entry = E_DIRECT_VIEM -> "directV"
    [] entry = E_VIA_RELAYER -> "relayV"
    [] entry = E_TRANSFER -> "transfer"
    [] entry = E_SEND_LYX -> "directV"
    [] OTHER -> "test"

StartsWithRelay(entry, useRelay) ==
  CASE entry = E_ROUTER -> "relayE"
    [] entry = E_RELAY -> "relayE"
    [] entry = E_DIRECT -> "directE"
    [] entry = E_DIRECT_VIEM -> "directV"
    [] entry = E_VIA_RELAYER -> "relayV"
    [] entry = E_TRANSFER -> "transfer"
    [] entry = E_SEND_LYX -> "directV"
    [] OTHER -> "test"

\* the function an entry point runs first; executeRelayCall tries the relay
\* only when useRelay is set
StartFn(entry, useRelay) ==
  CASE entry = E_ROUTER -> IF useRelay THEN "relayE" ELSE "directE"
    [] entry = E_RELAY -> "relayE"
    [] entry = E_DIRECT -> "directE"
    [] entry = E_DIRECT_VIEM -> "directV"
    [] entry = E_VIA_RELAYER -> "relayV"
    [] entry = E_TRANSFER -> "transfer"
    [] entry = E_SEND_LYX -> "directV"
    [] entry = E_FOLLOW -> "directV"
    [] OTHER -> "test"

CatchesInEveryEntry(entry, fn) == fn = "relayE"

CatchesNothing(entry, fn) == FALSE

\* the try/catch of executeRelayCall: whatever executeRelayCallRelay throws
\* is caught and the direct path runs next
RouterCatches(entry, fn) == entry = E_ROUTER /\ fn = "relayE"

(***************************************************************************)
(* State                                                                   *)
(***************************************************************************)
Procs == {1, 2}

NoAddr == Addr("none", FALSE)
NoNonce == Nonce(0, 0)
NoSig == [key |-> "none", digest |-> NoDigest, form |-> "none"]
NoEnv == [sent |-> FALSE, km |-> NoAddr, nonce |-> NoNonce, validityTimestamps |-> 0,
          value |-> 0, payload |-> NoBytes, signature |-> NoSig, recovered |-> NoAddr,
          address |-> "none", carriesValidity |-> FALSE, stale |-> FALSE,
          chainId |-> 0]
NoHash == [tx |-> <<>>]
NoResponse == [status |-> 0, readable |-> FALSE]

IdleProc ==
  [entry |-> "none", fn |-> "none", pc |-> "idle",
   useRelay |-> FALSE, useTestnet |-> FALSE, channel |-> 0, value |-> 0,
   validityTimestamps |-> 0, payload |-> NoBytes,
   km |-> NoAddr, kmNonce |-> NoAddr, nonce |-> NoNonce, signature |-> NoSig,
   relayEnv |-> NoEnv, directEnv |-> NoEnv, response |-> NoResponse,
   relay |-> "none", fetches |-> 0, relayRequests |-> 0, directSubmissions |-> 0,
   executions |-> 0, receiptStatus |-> 0, txHash |-> NoHash, gasUsed |-> 0,
   receiptRead |-> FALSE, transactionHash |-> NoHash, resultGasUsed |-> <<>>,
   outcome |-> "none", error |-> "none", result |-> "none",
   isFollowing |-> FALSE, balance |-> -1]

VARIABLES
  controller,  \* CONTROLLER_ADDRESS of the credentials file
  owner,       \* chain: the key manager owning the universal profile
  chainNonce,  \* chain: next nonce of the controller, per key manager and channel
  menu,        \* which invocations the callers may make
  procs,       \* the running invocations
  fin,         \* the arguments of the pure function being applied
  fstage,      \* "off" | "in" | "encoded" | "hashed" | "signed" | "verified"
  fmsg,        \* the encoded message
  fdigest,     \* the digest
  fsig,        \* the signature signLSP25Message makes of fmsg
  frecovered,  \* the address verifyLSP25Signature recovers from fmsg and fsig
  fviem,       \* the signature signRelayCall makes
  fin2,        \* the fields of a second envelope
  fmsg2,       \* its encoded message
  fdigest2,    \* its digest
  frecovered2, \* the address verifyLSP25Signature recovers from fmsg2 and fsig
  fviem2,      \* the signature signRelayCall makes of the second envelope
  permissions, \* chain: the permission mask of the controller
  gate,        \* the permission check made last
  clock,       \* Date.now(), in milliseconds
  quota,       \* the quota query sent last
  acPerms,     \* chain: AddressPermissions:Permissions:<controller> of the account
  acList,      \* chain: the AddressPermissions[] array of the account
  clients,     \* which of upAddress, walletClient, publicClient the hook was given
  astate,      \* the AuthorizationState of useAuthorization
  calls        \* the authorize calls of the hook

evars == <<controller, owner, chainNonce, menu, procs>>
fvars == <<fin, fstage, fmsg, fdigest, fsig, frecovered, fviem,
           fin2, fmsg2, fdigest2, frecovered2, fviem2>>
gvars == <<permissions, gate, clock, quota>>
vars == <<controller, owner, chainNonce, menu, procs, fin, fstage, fmsg, fdigest,
          fsig, frecovered, fviem, fin2, fmsg2, fdigest2, frecovered2, fviem2,
          permissions, gate, clock, quota, acPerms, acList, clients, astate, calls>>
avars == <<acPerms, acList, clients, astate, calls>>

(***************************************************************************)
(* The chain and the relay, as the program sees them                       *)
(***************************************************************************)
ChannelZeroNonce(kmAddress, signer, channel) ==
  IF signer.id = KeyAddress /\ kmAddress.id \in KeyManagers
  THEN Nonce(0, chainNonce[kmAddress.id][0])
  ELSE Nonce(0, 0)

\* km.getNonce(signer, channel)
getNonce(kmAddress, signer, channel) ==
  IF signer.id = KeyAddress /\ kmAddress.id \in KeyManagers
  THEN Nonce(channel, chainNonce[kmAddress.id][channel])
  ELSE Nonce(channel, 0)

\* The digest the key manager recomputes in executeRelayCall (LSP25).
KMDigest(kmId, nonce, validityTimestamps, msgValue, payload) ==
  Keccak256(<<25, 0>> \o GetBytes(Addr(kmId, FALSE))
      \o BE(25, 32) \o BE(42, 32) \o NonceBE(nonce)
      \o BE(validityTimestamps, 32) \o BE(msgValue, 32) \o payload)

\* executeRelayCall(signature, nonce, validityTimestamps, payload) on key
\* manager kmId succeeds when kmId manages the account, the signature
\* recovers the controller, the nonce is the controller's next one and the
\* controller is permitted to make the call.
Authorised(payload) ==
  TransfersValue(payload) => HasPermission(permissions, SUPER_TRANSFERVALUE)

KMAccepts(kmId, signature, nonce, validityTimestamps, msgValue, payload) ==
  /\ Authorised(payload)
  /\ kmId = owner
  /\ recoverAddress(KMDigest(kmId, nonce, validityTimestamps, msgValue, payload),
                    signature).id = KeyAddress
  /\ nonce.ch \in Channels
  /\ nonce.seq = chainNonce[kmId][nonce.ch]

ConsumeNonce(kmId, ch) ==
  [chainNonce EXCEPT ![kmId][ch] = @ + 1]

\* the nonce was used by an execution on key manager kmId before
NonceConsumed(kmId, nonce) ==
  /\ kmId \in KeyManagers
  /\ nonce.ch \in Channels
  /\ nonce.seq < chainNonce[kmId][nonce.ch]

\* the hash of the transaction that carries the call, and the gas its
\* execution uses
TxHash(kmId, nonce, signature) == [tx |-> <<kmId, nonce.ch, nonce.seq, signature.key>>]
GasOf(payload, executed) ==
  21000 + 16 * Len(payload) + (IF executed THEN 30000 ELSE 0)

RECURSIVE toString(_)
\* n.toString(): the decimal digits of n
toString(n) == IF n < 10 THEN <<n>> ELSE toString(n \div 10) \o <<n % 10>>

RECURSIVE ParseInt(_)
\* the number a string of decimal digits denotes
ParseInt(ds) ==
  IF Len(ds) = 0 THEN 0 ELSE 10 * ParseInt(SubSeq(ds, 1, Len(ds) - 1)) + ds[Len(ds)]

RelayVerdicts == {"accept", "unauthorized", "malformed"}
Transports == {"unsent", "delivered", "lost"}

(***************************************************************************)
(* Steps of an invocation                                                  *)
(***************************************************************************)
\* An exception leaves the function rec.fn: executeRelayCall catches what
\* executeRelayCallRelay throws, logs it and calls executeRelayCallDirect,
\* which starts from scratch; everywhere else the caller gets the error.
\* sendLYX catches what executeRelayCallDirect throws and names the missing
\* permission when the message holds the NotAuthorised error.
NOT_AUTHORISED == "execution reverted: NotAuthorised (0x6cb60587)"
SUPER_TRANSFERVALUE_REQUIRED == "SUPER_TRANSFERVALUE permission (0x100) required to send LYX"

Rethrown(entry, err) ==
  IF entry = E_SEND_LYX /\ err = NOT_AUTHORISED THEN SUPER_TRANSFERVALUE_REQUIRED ELSE err

Throw(rec, err) ==
  IF RouterCatches(rec.entry, rec.fn)
  THEN [rec EXCEPT !.fn = "directE", !.pc = "owner", !.km = NoAddr,
                   !.kmNonce = NoAddr, !.nonce = NoNonce, !.signature = NoSig]
  ELSE [rec EXCEPT !.pc = "done", !.outcome = "thrown",
                   !.error = Rethrown(rec.entry, err)]

Return(rec, result) ==
  [rec EXCEPT !.pc = "done", !.outcome = "returned", !.result = result]

SignsFirstNonce(rec, nonce) ==
  signRelayCall(rec.km, NoNonce, rec.validityTimestamps, rec.payload)

\* the signature each function makes once it holds the nonce
SignFor(rec, nonce) ==
  CASE rec.fn \in {"relayE", "directE"} ->
         signLSP25Message(rec.km,
           createLSP25Message(LUKSO_CHAIN_ID, nonce, rec.validityTimestamps,
                              rec.value, rec.payload),
           PRIVATE_KEY)
    [] rec.fn \in ViemFns ->
         signRelayCall(rec.km, nonce, rec.validityTimestamps, rec.payload)
    [] OTHER -> scriptSign(rec.km, nonce, rec.payload)

\* the local verification each function makes before it goes on
LocalCheckPasses(rec, nonce, signature) ==
  CASE rec.fn \in {"relayE", "directE"} ->
         toLowerCase(verifyLSP25Signature(rec.km,
             createLSP25Message(LUKSO_CHAIN_ID, nonce, rec.validityTimestamps,
                                rec.value, rec.payload),
             signature))
           = toLowerCase(controller)
    [] rec.fn = "transfer" -> recoverAddress(signature.digest, signature) = controller
    [] OTHER -> TRUE

\* the body of the POST each relay function sends; the relay takes a
\* validityTimestamps that is not in the body as 0
RelayRequest(rec) ==
  CASE rec.fn = "relayE" ->
         [address |-> UP_ADDRESS, keyManagerAddress |-> rec.km, abi |-> rec.payload,
          signature |-> rec.signature, nonce |-> rec.nonce,
          hasValidityTimestamps |-> FALSE, validityTimestamps |-> 0]
    [] rec.fn = "relayV" ->
         [address |-> UP_ADDRESS, keyManagerAddress |-> NoAddr, abi |-> rec.payload,
          signature |-> rec.signature, nonce |-> NumberOf(rec.nonce),
          hasValidityTimestamps |-> FALSE, validityTimestamps |-> 0]
    [] OTHER ->
         [address |-> UP_ADDRESS, keyManagerAddress |-> NoAddr, abi |-> rec.payload,
          signature |-> rec.signature, nonce |-> NumberOf(rec.nonce),
          hasValidityTimestamps |-> TRUE, validityTimestamps |-> 0]

Invoke(p, inv) ==
  /\ procs[p].pc = "idle"
  /\ inv \in Menu(menu)
  /\ procs' = [procs EXCEPT ![p] =
       [IdleProc EXCEPT !.entry = inv.entry, !.fn = StartFn(inv.entry, inv.useRelay),
                        !.pc = IF inv.entry = E_FOLLOW THEN "following" ELSE "owner",
                        !.useRelay = inv.useRelay,
                        !.useTestnet = inv.useTestnet,
                        !.channel = inv.channel, !.value = inv.value,
                        !.validityTimestamps = inv.validityTimestamps,
                        !.payload = inv.payload]]
  /\ UNCHANGED <<controller, owner, chainNonce, menu, fvars, gvars, avars>>

\* await up.owner() / await getKeyManager()
ReadOwner(p) ==
  /\ procs[p].pc = "owner"
  /\ procs' = [procs EXCEPT ![p] =
       [@ EXCEPT !.km = Addr(owner, FALSE), !.kmNonce = Addr(owner, FALSE),
                 !.pc = IF procs[p].fn \in ViemFns THEN "owner2"
                        ELSE IF procs[p].fn = "transfer" THEN "balance" ELSE "nonce"]]
  /\ UNCHANGED <<controller, owner, chainNonce, menu, fvars, gvars, avars>>

NeverFollowing(isFollowing) == FALSE

\* if (isFollowing)
AlreadyFollowing(isFollowing) == isFollowing

\* followProfile: await publicClient.readContract(isFollowing), then either
\* the early return or executeRelayCallDirect(payload)
ReadIsFollowing(p, isFollowing) ==
  /\ procs[p].pc = "following"
  /\ procs' = [procs EXCEPT ![p] =
       IF AlreadyFollowing(isFollowing)
       THEN Return([@ EXCEPT !.isFollowing = isFollowing], "already_following")
       ELSE [@ EXCEPT !.isFollowing = isFollowing, !.pc = "owner"]]
  /\ UNCHANGED <<controller, owner, chainNonce, menu, fvars, gvars, avars>>

AlwaysSufficient(balance, amount) == TRUE

\* !(balance < amount)
Sufficient(balance, amount) == ~(balance < amount)

\* transferViaRelay: await token.decimals(), await token.balanceOf(UP_ADDRESS)
\* and the balance check
ReadBalance(p, balance) ==
  /\ procs[p].pc = "balance"
  /\ procs' = [procs EXCEPT ![p] =
       IF Sufficient(balance, TransferAmount)
       THEN [@ EXCEPT !.balance = balance, !.pc = "nonce"]
       ELSE Throw([@ EXCEPT !.balance = balance], "Insufficient balance")]
  /\ UNCHANGED <<controller, owner, chainNonce, menu, fvars, gvars, avars>>

\* the viem getNonce resolves the key manager once more
ReadOwner2(p) ==
  /\ procs[p].pc = "owner2"
  /\ procs' = [procs EXCEPT ![p] =
       [@ EXCEPT !.kmNonce = Addr(owner, FALSE), !.pc = "nonce"]]
  /\ UNCHANGED <<controller, owner, chainNonce, menu, fvars, gvars, avars>>

\* await km.getNonce(CONTROLLER_ADDRESS, channel), then encode, hash, sign
\* and verify, which run without suspension
ReadNonce(p) ==
  /\ procs[p].pc = "nonce"
  /\ LET rec == procs[p]
         nonce == getNonce(rec.kmNonce, controller, rec.channel)
         signature == SignFor(rec, nonce)
         rec1 == [rec EXCEPT !.nonce = nonce, !.signature = signature]
     IN procs' = [procs EXCEPT ![p] =
          IF LocalCheckPasses(rec, nonce, signature)
          THEN [rec1 EXCEPT !.pc = IF rec.fn \in RelayFns THEN "fetch" ELSE "send"]
          ELSE Throw(rec1, "Signature verification failed")]
  /\ UNCHANGED <<controller, owner, chainNonce, menu, fvars, gvars, avars>>

\* a chain read rejects (RPC unreachable, timeout)
RpcFail(p) ==
  /\ procs[p].pc \in {"following", "owner", "balance", "owner2", "nonce"}
  /\ procs' = [procs EXCEPT ![p] = Throw(@, "network error")]
  /\ UNCHANGED <<controller, owner, chainNonce, menu, fvars, gvars, avars>>

\* await fetch(relayerUrl, POST body): the request may never leave, or the
\* relay handles it (and on acceptance executes it on the key manager) and
\* the response arrives or is lost on the way back; the relayer of the
\* testnet submits to the testnet, whose key managers hash its chain id
Fetch(p, transport, verdict) ==
  /\ procs[p].pc = "fetch"
  /\ LET rec == procs[p]
         body == RelayRequest(rec)
         kmId == IF body.keyManagerAddress = NoAddr THEN owner
                 ELSE body.keyManagerAddress.id
         network == IF rec.useTestnet THEN LUKSO_TESTNET_CHAIN_ID ELSE LUKSO_CHAIN_ID
         env == [sent |-> TRUE, km |-> body.keyManagerAddress, nonce |-> body.nonce,
                 validityTimestamps |-> body.validityTimestamps, value |-> 0,
                 payload |-> body.abi, signature |-> body.signature,
                 recovered |-> recoverAddress(body.signature.digest, body.signature),
                 address |-> body.address,
                 carriesValidity |-> body.hasValidityTimestamps,
                 stale |-> NonceConsumed(kmId, body.nonce),
                 chainId |-> network]
         executes == /\ verdict = "accept"
                     /\ network = LUKSO_CHAIN_ID
                     /\ KMAccepts(kmId, body.signature, body.nonce,
                                  body.validityTimestamps, 0, body.abi)
         status == IF verdict = "unauthorized" THEN 401
                   ELSE IF executes THEN 200 ELSE 400
         rec1 == [rec EXCEPT !.fetches = @ + 1, !.relayRequests = @ + 1,
                             !.relayEnv = env,
                             !.executions = @ + (IF executes THEN 1 ELSE 0)]
     IN \/ /\ transport = "unsent"
           /\ verdict = "malformed"
           /\ procs' = [procs EXCEPT ![p] =
                Throw([rec EXCEPT !.fetches = @ + 1, !.relay = "unsent"],
                      "network error")]
           /\ UNCHANGED chainNonce
        \/ /\ transport = "delivered"
           /\ procs' = [procs EXCEPT ![p] =
                [rec1 EXCEPT !.pc = "json",
                             !.response = [status |-> status, readable |-> FALSE]]]
           /\ chainNonce' = IF executes THEN ConsumeNonce(kmId, body.nonce.ch)
                            ELSE chainNonce
        \/ /\ transport = "lost"
           /\ procs' = [procs EXCEPT ![p] =
                Throw([rec1 EXCEPT !.relay = "unknown"], "network error")]
           /\ chainNonce' = IF executes THEN ConsumeNonce(kmId, body.nonce.ch)
                            ELSE chainNonce
  /\ UNCHANGED <<controller, owner, menu, fvars, gvars, avars>>

ResponseBodies == {"unreadable", "transactionHash", "empty", "Invalid signature", "error"}

\* the bodies a response of that status may carry
BodyFits(status, body) ==
  \/ body = "unreadable"
  \/ status = 200 /\ body \in {"transactionHash", "empty"}
  \/ status = 401 /\ body \in {"Invalid signature", "error"}
  \/ status = 400 /\ body = "error"

\* await response.json(), then the check of response.ok
Json(p, body) ==
  /\ procs[p].pc = "json"
  /\ BodyFits(procs[p].response.status, body)
  /\ LET rec == procs[p]
         status == rec.response.status
         ok == status = 200
         relayed == IF ok THEN "ok"
                    ELSE IF status = 401 THEN "unauthorized" ELSE "malformed"
         rec1 == [rec EXCEPT !.response.readable = TRUE, !.relay = relayed]
     IN procs' = [procs EXCEPT ![p] =
          CASE body = "unreadable" ->
                 Throw([rec EXCEPT !.relay = "unknown"], "SyntaxError")
            [] body # "unreadable" /\ rec.fn = "relayE" ->
                 IF ok THEN Return(rec1, body) ELSE Throw(rec1, "Relay error")
            [] body # "unreadable" /\ rec.fn = "relayV" ->
                 IF ok THEN Return(rec1, body)
                 ELSE IF status = 401 /\ body = "Invalid signature"
                      THEN Throw(rec1, "Relayer requires SIGN permission (0x200000)")
                      ELSE Throw(rec1, "Relayer error")
            [] body # "unreadable" /\ rec.fn = "transfer" ->
                 IF ok /\ body = "transactionHash" THEN Return(rec1, body)
                 ELSE Throw(rec1, "Relay failed")
            [] OTHER -> Return(rec1, "logged")]
  /\ UNCHANGED <<controller, owner, chainNonce, menu, fvars, gvars, avars>>

\* await kmWithSigner.executeRelayCall(signature, nonce, validityTimestamps,
\* payload) / walletClient.writeContract: no value is attached; a call the
\* controller is not permitted to make is rejected when its gas is estimated
Send(p, transport, mined) ==
  /\ procs[p].pc = "send"
  /\ LET rec == procs[p]
         env == [sent |-> TRUE, km |-> rec.km, nonce |-> rec.nonce,
                 validityTimestamps |-> rec.validityTimestamps, value |-> 0,
                 payload |-> rec.payload, signature |-> rec.signature,
                 recovered |-> recoverAddress(rec.signature.digest, rec.signature),
                 address |-> "none", carriesValidity |-> TRUE,
                 stale |-> NonceConsumed(rec.km.id, rec.nonce),
                 chainId |-> LUKSO_CHAIN_ID]
         accepted == KMAccepts(rec.km.id, rec.signature, rec.nonce,
                               rec.validityTimestamps, 0, rec.payload)
         rec1 == [rec EXCEPT !.directSubmissions = @ + 1, !.directEnv = env,
                             !.executions = @ + (IF accepted THEN 1 ELSE 0),
                             !.txHash = TxHash(rec.km.id, rec.nonce, rec.signature),
                             !.gasUsed = GasOf(rec.payload, accepted)]
     IN \/ /\ transport = "unsent"
           /\ mined
           /\ procs' = [procs EXCEPT ![p] = Throw(rec, "network error")]
           /\ UNCHANGED chainNonce
        \/ /\ transport = "delivered"
           /\ accepted
           /\ mined
           /\ procs' = [procs EXCEPT ![p] =
                [rec1 EXCEPT !.pc = "wait", !.receiptStatus = 1]]
           /\ chainNonce' = ConsumeNonce(rec.km.id, rec.nonce.ch)
        \/ /\ transport = "delivered"
           /\ ~accepted
           /\ procs' = [procs EXCEPT ![p] =
                IF ~Authorised(rec.payload) THEN Throw(rec1, NOT_AUTHORISED)
                ELSE IF mined THEN [rec1 EXCEPT !.pc = "wait", !.receiptStatus = 0]
                ELSE Throw(rec1, "execution reverted")]
           /\ UNCHANGED chainNonce
        \/ /\ transport = "lost"
           /\ mined
           /\ procs' = [procs EXCEPT ![p] =
                Throw(IF Authorised(rec.payload) THEN rec1 ELSE rec, "network error")]
           /\ chainNonce' = IF accepted THEN ConsumeNonce(rec.km.id, rec.nonce.ch)
                            ELSE chainNonce
  /\ UNCHANGED <<controller, owner, menu, fvars, gvars, avars>>

\* await tx.wait() / waitForTransactionReceipt, then the result
\* { transactionHash, status, gasUsed: receipt.gasUsed.toString() } is built;
\* tx.wait() of ethers rejects for a reverted transaction
Wait(p, arrived) ==
  /\ procs[p].pc = "wait"
  /\ LET rec == procs[p]
         rec0 == [rec EXCEPT !.receiptRead = TRUE]
         rec1 == [rec0 EXCEPT !.transactionHash = rec.txHash,
                              !.resultGasUsed = toString(rec.gasUsed)]
     IN procs' = [procs EXCEPT ![p] =
          IF ~arrived THEN Throw(rec, "network error")
          ELSE IF rec.fn = "directE"
               THEN IF rec.receiptStatus = 1 THEN Return(rec1, "success")
                    ELSE Throw(rec0, "execution reverted")
               ELSE Return(rec1, IF rec.receiptStatus = 1 THEN "success" ELSE "reverted")]
  /\ UNCHANGED <<controller, owner, chainNonce, menu, fvars, gvars, avars>>

\* the account hands its ownership to another key manager
ChangeOwner ==
  /\ owner = "km1"
  /\ owner' = "km2"
  /\ UNCHANGED <<controller, chainNonce, menu, procs, fvars, gvars, avars>>

(***************************************************************************)
(* What an invocation has written out                                      *)
(***************************************************************************)
\* one value written to the console, put into an error message, a result
\* or a request: what it is, its text and its bytes
Item(kind, text, bytes) == [kind |-> kind, text |-> text, bytes |-> bytes]

\* the messages executeRelayCallRelay may throw, which executeRelayCall logs
\* before it falls back
RelayErrorMessages ==
  {"Signature verification failed", "network error", "SyntaxError", "Relay error"}

OutputsWithKey(rec) ==
  {Item("log", UP_ADDRESS, NoBytes), Item("log", PRIVATE_KEY, NoBytes)}

\* everything the invocation has logged (verbose), sent, thrown or returned
Outputs(rec) ==
  (IF rec.pc \in {"idle", "off"} THEN {}
   ELSE {Item("log", UP_ADDRESS, NoBytes), Item("log", controller.id, NoBytes)})
  \cup (IF rec.km = NoAddr THEN {} ELSE {Item("log", rec.km.id, NoBytes)})
  \cup (IF rec.signature = NoSig THEN {}
        ELSE {Item("log", "nonce", NonceBE(rec.nonce))})
  \cup (IF rec.entry = E_ROUTER /\ rec.useRelay /\ rec.fn = "directE"
        THEN {Item("log", msg, NoBytes) : msg \in RelayErrorMessages}
        ELSE {})
  \cup (IF rec.relayEnv.sent
        THEN {Item("body", rec.relayEnv.address, NoBytes),
              Item("body", "abi", rec.relayEnv.payload),
              Item("body", "signature", Serialized(rec.relayEnv.signature)),
              Item("body", "nonce", NonceBE(rec.relayEnv.nonce))}
              \cup (IF rec.relayEnv.km = NoAddr THEN {}
                    ELSE {Item("body", rec.relayEnv.km.id, NoBytes)})
        ELSE {})
  \cup (IF rec.directEnv.sent
        THEN {Item("tx", rec.directEnv.km.id, NoBytes),
              Item("tx", "signature", Serialized(rec.directEnv.signature)),
              Item("tx", "nonce", NonceBE(rec.directEnv.nonce)),
              Item("tx", "payload", rec.directEnv.payload),
              Item("log", "hash", rec.txHash.tx)}
        ELSE {})
  \cup (IF rec.outcome = "thrown"
        THEN {Item("error", rec.error, NoBytes)}
              \cup (IF rec.error = "Signature verification failed"
                    THEN {Item("error", controller.id, NoBytes),
                          Item("error",
                               recoverAddress(rec.signature.digest, rec.signature).id,
                               NoBytes)}
                    ELSE {})
        ELSE {})
  \cup (IF rec.outcome = "returned"
        THEN {Item("result", rec.result, NoBytes),
              Item("result", "transactionHash", rec.transactionHash.tx),
              Item("result", "gasUsed", rec.resultGasUsed)}
        ELSE {})

(***************************************************************************)
(* Specifications                                                          *)
(***************************************************************************)
ControllerConfigs == {Addr(KeyAddress, FALSE), Addr(KeyAddress, TRUE), Addr("stale", FALSE)}

InitChain ==
  /\ controller \in ControllerConfigs
  /\ owner = "km1"
  /\ \E n \in 0..MaxInitNonce :
       chainNonce = [k \in KeyManagers |->
                       [c \in Channels |-> IF k = "km1" THEN n ELSE 0]]

\* the fields of an envelope
Envelope(chainId, nonce, validityTimestamps, value, payload) ==
  [chainId |-> chainId, nonce |-> nonce, validityTimestamps |-> validityTimestamps,
   value |-> value, payload |-> payload]

NoOutputs ==
  /\ fmsg = NoBytes
  /\ fdigest = NoDigest
  /\ fsig = NoSig
  /\ frecovered = NoAddr
  /\ fviem = NoSig
  /\ fmsg2 = NoBytes
  /\ fdigest2 = NoDigest
  /\ frecovered2 = NoAddr
  /\ fviem2 = NoSig

NoGate == [checked |-> FALSE, permissions |-> 0, required |-> 0, passes |-> FALSE]
NoQuota == [sent |-> FALSE, by |-> "none", address |-> "none", timestamp |-> 0,
            signature |-> NoSig, at |-> 0, reply |-> "none"]

\* useState<AuthorizationState>({ status: 'idle', txHash: null, error: null })
AuthorizationState(status, txHash, error) ==
  [status |-> status, txHash |-> txHash, error |-> error]
IdleState == AuthorizationState("idle", "null", "null")

Calls == {1, 2}
NoData == [built |-> FALSE, controllerAddress |-> "none", currentLength |-> 0,
           skipArrayOps |-> FALSE]
IdleCall == [pc |-> "idle", controllerAddress |-> "none", exists |-> FALSE,
             data |-> NoData, hash |-> "null", last |-> "none", reads |-> 0,
             writes |-> 0, receipt |-> "none"]
AllClients == [upAddress |-> TRUE, walletClient |-> TRUE, publicClient |-> TRUE]

AuthOff ==
  /\ acPerms = [a \in {"ctrl", "c1", "c2"} |-> 0]
  /\ acList = <<>>
  /\ clients = AllClients
  /\ astate = IdleState
  /\ calls = [c \in Calls |-> IdleCall]

ToolsOff ==
  /\ AuthOff
  /\ permissions = CURRENT_PERMISSIONS
  /\ gate = NoGate
  /\ clock = 0
  /\ quota = NoQuota

PureOff ==
  /\ ToolsOff
  /\ fin = [chainId |-> LUKSO_CHAIN_ID, nonce |-> NoNonce, validityTimestamps |-> 0,
            value |-> 0, payload |-> NoBytes, validator |-> NoAddr, key |-> PRIVATE_KEY]
  /\ fin2 = Envelope(LUKSO_CHAIN_ID, NoNonce, 0, 0, NoBytes)
  /\ fstage = "off"
  /\ NoOutputs

\* one invocation, every entry point and option
Init ==
  /\ InitChain
  /\ menu = "all"
  /\ procs = [p \in Procs |-> IF p = 1 THEN IdleProc ELSE [IdleProc EXCEPT !.pc = "off"]]
  /\ PureOff

\* two invocations running concurrently
InitConc ==
  /\ InitChain
  /\ menu = "concurrent"
  /\ procs = [p \in Procs |-> IdleProc]
  /\ PureOff

\* an awaited call of invocation p settles
Settle(p) ==
  \/ ReadOwner(p)
  \/ ReadOwner2(p)
  \/ \E balance \in {0, TransferAmount - 1, TransferAmount} :
       ReadBalance(p, balance)
  \/ RpcFail(p)
  \/ ReadNonce(p)
  \/ \E transport \in Transports, verdict \in RelayVerdicts : Fetch(p, transport, verdict)
  \/ \E body \in ResponseBodies : Json(p, body)
  \/ \E transport \in Transports, mined \in BOOLEAN : Send(p, transport, mined)
  \/ \E arrived \in BOOLEAN : Wait(p, arrived)

Step(p) ==
  \/ \E inv \in AllInvocations : Invoke(p, inv)
  \/ Settle(p)

\* the isFollowing read of followProfile settles
SettleFollow(p) == \E isFollowing \in BOOLEAN : ReadIsFollowing(p, isFollowing)

Next == (\E p \in Procs : Step(p) \/ SettleFollow(p)) \/ ChangeOwner

NextConc == \E p \in Procs : Step(p)

Spec == Init /\ [][Next]_vars

SpecConc == InitConc /\ [][NextConc]_vars

\* every awaited call of a running invocation settles in the end
Fairness == \A p \in Procs : WF_vars(Settle(p)) /\ WF_vars(SettleFollow(p))

SpecLive == Init /\ [][Next]_vars /\ Fairness

(***************************************************************************)
(* Inputs of the pure functions                                            *)
(***************************************************************************)
RECURSIVE SeqsUpTo(_, _)
SeqsUpTo(S, n) ==
  IF n = 0 THEN {<<>>}
  ELSE LET shorter == SeqsUpTo(S, n - 1)
       IN shorter \cup {Append(s, x) : s \in shorter, x \in S}

PayloadBytes == {0, 255}
Payloads == SeqsUpTo(PayloadBytes, MaxPayloadLen)
ChainIds == {LUKSO_CHAIN_ID, LUKSO_TESTNET_CHAIN_ID}
InputNonces == {Nonce(ch, seq) : ch \in Channels, seq \in {0, 5, 258}}
InputValues == {0, 1, 65536}
InputValidity == {0, 300}

PrivateKeys == {PRIVATE_KEY, "key2"}
Validators == {Addr(k, l) : k \in KeyManagers, l \in BOOLEAN}

\* the envelopes that differ from envelope e in exactly one field
Variants(e) ==
  {[e EXCEPT !.chainId = x] : x \in ChainIds \ {e.chainId}}
  \cup {[e EXCEPT !.nonce = x] : x \in InputNonces \ {e.nonce}}
  \cup {[e EXCEPT !.validityTimestamps = x] : x \in InputValidity \ {e.validityTimestamps}}
  \cup {[e EXCEPT !.value = x] : x \in InputValues \ {e.value}}
  \cup {[e EXCEPT !.payload = x] : x \in Payloads \ {e.payload}}

PureChain ==
  /\ controller = Addr(KeyAddress, FALSE)
  /\ owner = "km1"
  /\ chainNonce = [k \in KeyManagers |-> [c \in Channels |-> 0]]
  /\ menu = "none"
  /\ procs = [p \in Procs |-> [IdleProc EXCEPT !.pc = "off"]]

\* one envelope, every validator and key
InitPure ==
  /\ fin \in [chainId : ChainIds, nonce : InputNonces,
              validityTimestamps : InputValidity, value : InputValues,
              payload : Payloads, validator : Validators, key : PrivateKeys]
  /\ fin2 = Envelope(fin.chainId, fin.nonce, fin.validityTimestamps, fin.value, fin.payload)
  /\ fstage = "in"
  /\ NoOutputs
  /\ PureChain
  /\ ToolsOff

\* two envelopes that differ in exactly one field
InitFields ==
  /\ fin \in [chainId : ChainIds, nonce : InputNonces,
              validityTimestamps : InputValidity, value : InputValues,
              payload : Payloads, validator : {Addr("km1", FALSE)}, key : {PRIVATE_KEY}]
  /\ fin2 \in Variants(Envelope(fin.chainId, fin.nonce, fin.validityTimestamps,
                                fin.value, fin.payload))
  /\ fstage = "in"
  /\ NoOutputs
  /\ PureChain
  /\ ToolsOff

ApplyEncode ==
  /\ fstage = "in"
  /\ fmsg' = createLSP25Message(fin.chainId, fin.nonce, fin.validityTimestamps,
                                fin.value, fin.payload)
  /\ fmsg2' = createLSP25Message(fin2.chainId, fin2.nonce, fin2.validityTimestamps,
                                 fin2.value, fin2.payload)
  /\ fstage' = "encoded"
  /\ UNCHANGED <<fin, fin2, fdigest, fdigest2, fsig, fviem, fviem2,
                 frecovered, frecovered2, evars, gvars, avars>>

ApplyHash ==
  /\ fstage = "encoded"
  /\ fdigest' = hashDataWithIntendedValidator(fin.validator, fmsg)
  /\ fdigest2' = hashDataWithIntendedValidator(fin.validator, fmsg2)
  /\ fstage' = "hashed"
  /\ UNCHANGED <<fin, fin2, fmsg, fmsg2, fsig, fviem, fviem2,
                 frecovered, frecovered2, evars, gvars, avars>>

ApplySign ==
  /\ fstage = "hashed"
  /\ fsig' = signLSP25Message(fin.validator, fmsg, fin.key)
  /\ fviem' = signRelayCall(fin.validator, fin.nonce, fin.validityTimestamps, fin.payload)
  /\ fviem2' = signRelayCall(fin.validator, fin2.nonce, fin2.validityTimestamps,
                             fin2.payload)
  /\ fstage' = "signed"
  /\ UNCHANGED <<fin, fin2, fmsg, fmsg2, fdigest, fdigest2,
                 frecovered, frecovered2, evars, gvars, avars>>

ApplyVerify ==
  /\ fstage = "signed"
  /\ frecovered' = verifyLSP25Signature(fin.validator, fmsg, fsig)
  /\ frecovered2' = verifyLSP25Signature(fin.validator, fmsg2, fsig)
  /\ fstage' = "verified"
  /\ UNCHANGED <<fin, fin2, fmsg, fmsg2, fdigest, fdigest2, fsig, fviem, fviem2, evars, gvars, avars>>

NextPure == ApplyEncode \/ ApplyHash \/ ApplySign \/ ApplyVerify

SpecPure == InitPure /\ [][NextPure]_vars

SpecFields == InitFields /\ [][NextPure]_vars

(***************************************************************************)
(* Permission check and quota query                                        *)
(***************************************************************************)
PermissionBits == {SUPER_TRANSFERVALUE, TRANSFERVALUE, SIGN, EXECUTE_RELAY_CALL}

\* the masks a controller may hold
PermissionMasks ==
  {a + b + c + d : a \in {0, SUPER_TRANSFERVALUE}, b \in {0, TRANSFERVALUE},
                   c \in {0, SIGN}, d \in {0, EXECUTE_RELAY_CALL}}
  \cup {CURRENT_PERMISSIONS}

\* Date.now() when a query is made
Clocks == {1400, 1600, 2000}

\* Math.round(Date.now() / 1000) and Math.floor(Date.now() / 1000)
MathRound(ms) == (ms + 500) \div 1000
MathFloor(ms) == ms \div 1000

\* keccak256 of the packed account address and timestamp
QuotaMessage(address, timestamp) ==
  Keccak256(GetBytes(Addr(address, FALSE)) \o BE(timestamp, 32))

\* the 65 zero bytes sent in place of a signature
ZeroSignature == [key |-> "none", digest |-> NoDigest, form |-> "zero"]

QuotaReplies == {"quota", "error"}

\* permissions = await km.getPermissionsFor(CONTROLLER_ADDRESS), then the
\* check of one bit of it
CheckPermission(required) ==
  /\ fstage = "tools"
  /\ gate' = [checked |-> TRUE, permissions |-> permissions, required |-> required,
              passes |-> HasPermission(permissions, required)]
  /\ UNCHANGED <<permissions, clock, quota, evars, fvars, avars>>

QuotaQuery(by, address, timestamp, signature, reply) ==
  [sent |-> TRUE, by |-> by, address |-> address, timestamp |-> timestamp,
   signature |-> signature, at |-> clock, reply |-> reply]

\* checkQuota() of the viem module
checkQuota(reply) ==
  /\ fstage = "tools"
  /\ LET timestamp == MathRound(clock)
         quotaMessage == QuotaMessage(UP_ADDRESS, timestamp)
         signature == SignMessage(PRIVATE_KEY, quotaMessage)
     IN quota' = QuotaQuery("checkQuota", UP_ADDRESS, timestamp, signature, reply)
  /\ UNCHANGED <<permissions, gate, clock, evars, fvars, avars>>

\* step 1 of the relay test script: the quota message is signed raw
ScriptQuota(reply) ==
  /\ fstage = "tools"
  /\ LET timestamp == MathFloor(clock)
         quotaMessage == QuotaMessage(UP_ADDRESS, timestamp)
         quotaSignature == SigningKeySign(PRIVATE_KEY, quotaMessage)
     IN quota' = QuotaQuery("script", UP_ADDRESS, timestamp, quotaSignature, reply)
  /\ UNCHANGED <<permissions, gate, clock, evars, fvars, avars>>

\* step 1 of test-relayer-with-sign.js
TestQuota(reply) ==
  /\ fstage = "tools"
  /\ quota' = QuotaQuery("test-relayer-with-sign", controller.id, MathFloor(clock),
                         ZeroSignature, reply)
  /\ UNCHANGED <<permissions, gate, clock, evars, fvars, avars>>

InitTools ==
  /\ permissions \in PermissionMasks
  /\ gate = NoGate
  /\ clock \in Clocks
  /\ quota = NoQuota
  /\ fin = [chainId |-> LUKSO_CHAIN_ID, nonce |-> NoNonce, validityTimestamps |-> 0,
            value |-> 0, payload |-> NoBytes, validator |-> NoAddr, key |-> PRIVATE_KEY]
  /\ fin2 = Envelope(LUKSO_CHAIN_ID, NoNonce, 0, 0, NoBytes)
  /\ fstage = "tools"
  /\ NoOutputs
  /\ PureChain
  /\ AuthOff

NextTools ==
  \/ \E required \in PermissionBits : CheckPermission(required)
  \/ \E reply \in QuotaReplies : checkQuota(reply)
  \/ \E reply \in QuotaReplies : ScriptQuota(reply)
  \/ \E reply \in QuotaReplies : TestQuota(reply)

SpecTools == InitTools /\ [][NextTools]_vars

(***************************************************************************)
(* useAuthorization: the hook that authorizes a controller on the account  *)
(***************************************************************************)
AuthControllers == {"ctrl", "c1", "c2"}

ConnectedAlways(cl) == TRUE

\* !walletClient || !publicClient || !upAddress
Connected(cl) == cl.walletClient /\ cl.publicClient /\ cl.upAddress

\* the reads return early without a call when a client is missing
CanRead == IF clients.publicClient /\ clients.upAddress THEN 1 ELSE 0

\* checkExistingController(controllerAddress).exists; a failed read is
\* caught and answered with { exists: false }
checkExistingController(controllerAddress, ok) ==
  IF ~(clients.publicClient /\ clients.upAddress) THEN FALSE
  ELSE IF ~ok THEN FALSE
  ELSE LET permData == BE(acPerms[controllerAddress], 32)
       IN permData # BE(0, 32) /\ FromBE(permData) > 0

\* getControllersCount(); a failed read is caught and answered with 0
getControllersCount(ok) ==
  IF ~(clients.publicClient /\ clients.upAddress) THEN 0
  ELSE IF ~ok THEN 0
  ELSE LET lengthData == IF acList = <<>> THEN <<>> ELSE BE(Len(acList), 16)
       IN IF lengthData = <<>> THEN 0 ELSE FromBE(SubSeq(lengthData, 1, 16))

\* the arguments authorize gives to buildControllerData
ControllerData(controllerAddress, currentLength, isExistingController) ==
  [built |-> TRUE, controllerAddress |-> controllerAddress,
   currentLength |-> currentLength, skipArrayOps |-> isExistingController]

SuccessWithoutHash(hash) == AuthorizationState("success", "null", "null")

\* setState({ status: 'success', txHash: hash, error: null })
SuccessState(hash) == AuthorizationState("success", hash, "null")

HashOf(c) == IF c = 1 THEN "0xa1" ELSE "0xa2"

\* authorize(params) up to its first await
authorize(c, controllerAddress) ==
  /\ fstage = "auth"
  /\ calls[c].pc = "idle"
  /\ IF ~Connected(clients)
     THEN /\ astate' = AuthorizationState("error", "null", "Wallet not connected")
          /\ calls' = [calls EXCEPT ![c] =
               [@ EXCEPT !.pc = "done", !.controllerAddress = controllerAddress,
                         !.last = "error"]]
     ELSE /\ astate' = AuthorizationState("preparing", "null", "null")
          /\ calls' = [calls EXCEPT ![c] =
               [@ EXCEPT !.pc = "check", !.controllerAddress = controllerAddress,
                         !.last = "preparing"]]
  /\ UNCHANGED <<acPerms, acList, clients, evars, fvars, gvars>>

\* await checkExistingController(...); for an existing controller the data
\* is built at once and the status becomes 'pending'
AuthCheck(c, ok) ==
  /\ calls[c].pc = "check"
  /\ LET exists == checkExistingController(calls[c].controllerAddress, ok)
         call == [calls[c] EXCEPT !.exists = exists, !.reads = @ + CanRead]
     IN IF exists
        THEN /\ calls' = [calls EXCEPT ![c] =
                  [call EXCEPT !.pc = "write", !.last = "pending",
                               !.data = ControllerData(call.controllerAddress, 0, TRUE)]]
             /\ astate' = AuthorizationState("pending", "null", "null")
        ELSE /\ calls' = [calls EXCEPT ![c] = [call EXCEPT !.pc = "count"]]
             /\ UNCHANGED astate
  /\ UNCHANGED <<acPerms, acList, clients, evars, fvars, gvars>>

\* await getControllersCount(), then the data is built and the status
\* becomes 'pending'
AuthCount(c, ok) ==
  /\ calls[c].pc = "count"
  /\ calls' = [calls EXCEPT ![c] =
       [@ EXCEPT !.pc = "write", !.last = "pending", !.reads = @ + CanRead,
                 !.data = ControllerData(calls[c].controllerAddress,
                                         getControllersCount(ok), FALSE)]]
  /\ astate' = AuthorizationState("pending", "null", "null")
  /\ UNCHANGED <<acPerms, acList, clients, evars, fvars, gvars>>

\* await walletClient.writeContract(setDataBatch): the hash, or the catch
AuthWrite(c, outcome) ==
  /\ calls[c].pc = "write"
  /\ IF outcome = "hash"
     THEN /\ calls' = [calls EXCEPT ![c] =
               [@ EXCEPT !.pc = "wait", !.hash = HashOf(c), !.writes = @ + 1]]
          /\ UNCHANGED astate
     ELSE /\ calls' = [calls EXCEPT ![c] =
               [@ EXCEPT !.pc = "done", !.last = "error", !.writes = @ + 1]]
          /\ astate' = AuthorizationState("error", "null",
                          IF outcome = "rejected" THEN "User rejected the request"
                          ELSE "Authorization failed")
  /\ UNCHANGED <<acPerms, acList, clients, evars, fvars, gvars>>

\* await publicClient.waitForTransactionReceipt({ hash }); a successful
\* setDataBatch stores the permissions and, unless the array operations are
\* skipped, the controller at index currentLength and the new length
AuthWait(c, outcome) ==
  /\ calls[c].pc = "wait"
  /\ LET data == calls[c].data
     IN /\ calls' = [calls EXCEPT ![c] =
             [@ EXCEPT !.pc = "done", !.receipt = outcome,
                       !.last = IF outcome = "success" THEN "success" ELSE "error"]]
        /\ astate' =
             CASE outcome = "success" -> SuccessState(calls[c].hash)
               [] outcome = "reverted" ->
                    AuthorizationState("error", calls[c].hash, "Transaction failed")
               [] OTHER -> AuthorizationState("error", "null", "Timed out")
        /\ IF outcome = "success"
           THEN /\ acPerms' = [acPerms EXCEPT ![data.controllerAddress] = SIGN]
                /\ acList' =
                     IF data.skipArrayOps \/ data.currentLength > Len(acList) THEN acList
                     ELSE Append(SubSeq(acList, 1, data.currentLength),
                                 data.controllerAddress)
           ELSE UNCHANGED <<acPerms, acList>>
  /\ UNCHANGED <<clients, evars, fvars, gvars>>

\* reset()
reset ==
  /\ fstage = "auth"
  /\ astate' = IdleState
  /\ UNCHANGED <<acPerms, acList, clients, calls, evars, fvars, gvars>>

InitAuth ==
  /\ \E known \in BOOLEAN :
       /\ acPerms = [a \in AuthControllers |-> IF a = "ctrl" /\ known THEN SIGN ELSE 0]
       /\ acList = IF known THEN <<"ctrl">> ELSE <<>>
  /\ clients \in {cl \in [upAddress : BOOLEAN, walletClient : BOOLEAN,
                            publicClient : BOOLEAN] :
                     Cardinality({f \in {"upAddress", "walletClient", "publicClient"} :
                                    ~cl[f]}) <= 1}
  /\ astate = IdleState
  /\ calls = [c \in Calls |-> IdleCall]
  /\ permissions = CURRENT_PERMISSIONS
  /\ gate = NoGate
  /\ clock = 0
  /\ quota = NoQuota
  /\ fin = [chainId |-> LUKSO_CHAIN_ID, nonce |-> NoNonce, validityTimestamps |-> 0,
            value |-> 0, payload |-> NoBytes, validator |-> NoAddr, key |-> PRIVATE_KEY]
  /\ fin2 = Envelope(LUKSO_CHAIN_ID, NoNonce, 0, 0, NoBytes)
  /\ fstage = "auth"
  /\ NoOutputs
  /\ PureChain

NextAuth ==
  \/ \E c \in Calls, a \in AuthControllers : authorize(c, a)
  \/ \E c \in Calls, ok \in BOOLEAN : AuthCheck(c, ok)
  \/ \E c \in Calls, ok \in BOOLEAN : AuthCount(c, ok)
  \/ \E c \in Calls, outcome \in {"hash", "rejected", "thrown"} : AuthWrite(c, outcome)
  \/ \E c \in Calls, outcome \in {"success", "reverted", "timeout"} : AuthWait(c, outcome)
  \/ reset

SpecAuth == InitAuth /\ [][NextAuth]_vars

(***************************************************************************)
(* C2: the bytes hashed into the signing digest are exactly 0x19, 0x00,    *)
(* the 20 bytes of the validator address and then the encoded message,     *)
(* nothing else: the pre-image is 22 + len(encodedMessage) bytes long.     *)
(***************************************************************************)
C2_PreImageLayout ==
  fstage = "hashed" =>
    /\ Len(fdigest.keccak) = 22 + Len(fmsg)
    /\ fdigest.keccak[1] = 25
    /\ fdigest.keccak[2] = 0
    /\ SubSeq(fdigest.keccak, 3, 22) = GetBytes(fin.validator)
    /\ SubSeq(fdigest.keccak, 23, Len(fdigest.keccak)) = fmsg

C2_Witness ==
  /\ fstage = "hashed"
  /\ fin.validator.id = "km2"
  /\ Len(fin.payload) = MaxPayloadLen
  /\ Len(fdigest.keccak) = 22 + 160 + MaxPayloadLen

(***************************************************************************)
(* C3: createLSP25Message returns version (25), chainId, nonce,            *)
(* validityTimestamps and value, each as a 32-byte big-endian slot in that *)
(* order, followed by the raw payload without a length prefix; the result  *)
(* is 160 + len(payload) bytes long.  (Every slot decodes back to the      *)
(* argument it was made from, so the result is determined by them.)        *)
(***************************************************************************)
Slot(msg, i) == SubSeq(msg, 32 * i + 1, 32 * i + 32)

C3_MessageLayout ==
  fstage # "in" =>
    /\ Len(fmsg) = 160 + Len(fin.payload)
    /\ FromBE(Slot(fmsg, 0)) = 25
    /\ FromBE(Slot(fmsg, 1)) = fin.chainId
    /\ FromBE(SubSeq(fmsg, 65, 80)) = fin.nonce.ch
    /\ FromBE(SubSeq(fmsg, 81, 96)) = fin.nonce.seq
    /\ FromBE(Slot(fmsg, 3)) = fin.validityTimestamps
    /\ FromBE(Slot(fmsg, 4)) = fin.value
    /\ SubSeq(fmsg, 161, Len(fmsg)) = fin.payload

C3_Witness ==
  /\ fstage = "encoded"
  /\ fin.nonce = Nonce(1, 258)
  /\ fin.value = 65536
  /\ fin.chainId = 4201
  /\ Len(fin.payload) = MaxPayloadLen
  /\ Len(fmsg) = 160 + MaxPayloadLen

(***************************************************************************)
(* Claims about the execution paths                                        *)
(***************************************************************************)
Submitted(rec) == {env \in {rec.relayEnv, rec.directEnv} : env.sent}

(***************************************************************************)
(* C1: in every execution path a signed envelope is submitted to the relay *)
(* or to the key manager only if the address recovered from (digest,       *)
(* signature) equals the controller address; on a mismatch the operation   *)
(* fails and nothing is submitted.                                         *)
(***************************************************************************)
C1_VerifiedBeforeSubmit ==
  \A p \in Procs : \A env \in Submitted(procs[p]) :
    toLowerCase(env.recovered) = toLowerCase(controller)

(***************************************************************************)
(* C4: every relay-envelope signature the code produces is a signature     *)
(* over the intended-validator (EIP-191 version 0) digest                  *)
(* 0x19 0x00 keyManager message, made on the raw hash; none is made with   *)
(* the prefixed-message form (signMessage).                                *)
(***************************************************************************)
IsIntendedValidatorSignature(rec, signature) ==
  LET d == signature.digest.keccak
  IN /\ signature.form = "raw"
     /\ Len(d) = 22 + 160 + Len(rec.payload)
     /\ SubSeq(d, 1, 2) = <<25, 0>>
     /\ SubSeq(d, 3, 22) = GetBytes(rec.km)
     /\ FromBE(SubSeq(d, 23, 54)) = LSP25_VERSION
     /\ FromBE(SubSeq(d, 55, 86)) = LUKSO_CHAIN_ID
     /\ SubSeq(d, 87, 118) = NonceBE(rec.nonce)
     /\ SubSeq(d, 183, Len(d)) = rec.payload

C4_IntendedValidatorOnly ==
  \A p \in Procs :
    /\ procs[p].signature # NoSig =>
         IsIntendedValidatorSignature(procs[p], procs[p].signature)
    /\ \A env \in Submitted(procs[p]) : env.signature.form = "raw"

C4_Witness ==
  \E p \in Procs :
    /\ procs[p].relayEnv.sent
    /\ procs[p].directEnv.sent
    /\ procs[p].signature = procs[p].directEnv.signature

(***************************************************************************)
(* C5: when executeRelayCall (useRelay = true) falls back after a relay    *)
(* rejection, the direct submission carries the same signed envelope as    *)
(* the relay attempt: the same nonce and the same signature.               *)
(***************************************************************************)
C5_SameEnvelopeOnFallback ==
  \A p \in Procs :
    LET rec == procs[p]
    IN (/\ rec.entry = E_ROUTER
        /\ rec.relay \in {"unauthorized", "malformed"}
        /\ rec.directEnv.sent)
       => /\ rec.directEnv.nonce = rec.relayEnv.nonce
          /\ rec.directEnv.signature = rec.relayEnv.signature

(***************************************************************************)
(* C6: once a relay submission may have occurred (the request was sent and *)
(* its outcome is unknown), executeRelayCall does not submit the payload   *)
(* again through the direct path, so one invocation never has the payload  *)
(* executed on-chain twice.                                                *)
(***************************************************************************)
C6_NoResubmitAfterUnknown ==
  \A p \in Procs :
    /\ procs[p].relay = "unknown" => ~procs[p].directEnv.sent
    /\ procs[p].executions <= 1

(***************************************************************************)
(* C7: when the relay answers a submission with an unauthorized response,  *)
(* the router makes a direct submission with the identical nonce, and      *)
(* exactly one on-chain attempt is made for that invocation.               *)
(***************************************************************************)
C7_FallbackIdenticalNonce ==
  \A p \in Procs :
    LET rec == procs[p]
    IN (/\ rec.entry = E_ROUTER
        /\ rec.relay = "unauthorized"
        /\ rec.outcome = "returned")
       => /\ rec.directEnv.sent
          /\ rec.directEnv.nonce = rec.relayEnv.nonce
          /\ rec.directSubmissions = 1

(***************************************************************************)
(* C8: under relay-then-direct only a relay rejection classified as an     *)
(* authorization failure (401) triggers the direct fallback; a relay       *)
(* answer rejecting the request as malformed is fatal at once and causes   *)
(* no direct submission.                                                   *)
(***************************************************************************)
C8_OnlyUnauthorizedFallsBack ==
  \A p \in Procs :
    LET rec == procs[p]
    IN (/\ rec.entry = E_ROUTER
        /\ rec.useRelay
        /\ rec.response.readable
        /\ rec.response.status # 401)
       => ~rec.directEnv.sent

(***************************************************************************)
(* C9: under the relay-only policy (executeRelayCallRelay or               *)
(* executeRelayCallViaRelayer called directly) a relay rejection reaches   *)
(* the caller as an error and the controller never sends a gas-paying      *)
(* transaction.                                                            *)
(***************************************************************************)
C9_RelayOnlyNeverPaysGas ==
  \A p \in Procs :
    LET rec == procs[p]
    IN rec.entry \in {E_RELAY, E_VIA_RELAYER}
       => /\ rec.fn \notin DirectFns
          /\ rec.directSubmissions = 0
          /\ ~rec.directEnv.sent
          /\ (rec.response.readable /\ rec.response.status # 200)
               => (rec.pc = "done" /\ rec.outcome = "thrown" /\ rec.error # "none")

C9_Witness ==
  \E p \in Procs :
    /\ procs[p].entry = E_RELAY
    /\ procs[p].relayEnv.sent
    /\ procs[p].response.readable
    /\ procs[p].response.status = 401
    /\ procs[p].outcome = "thrown"

(***************************************************************************)
(* C10 as stated: under the direct-only policy (executeRelayCall with      *)
(* useRelay false or absent) no request is sent to the relay endpoint and  *)
(* exactly one direct submission is made.                                  *)
(***************************************************************************)
C10_ExactlyOneDirect ==
  \A p \in Procs :
    LET rec == procs[p]
    IN (rec.entry = E_ROUTER /\ ~rec.useRelay /\ rec.pc = "done")
       => /\ rec.fetches = 0
          /\ rec.relayRequests = 0
          /\ rec.directSubmissions = 1

(***************************************************************************)
(* C10 amended: under the direct-only policy no request is sent to the     *)
(* relay endpoint and at most one direct submission is made: exactly one   *)
(* whenever the invocation returns a result, and an invocation that ends   *)
(* without one (a chain read or the local signature check failed, or the   *)
(* transaction never left) ends with a thrown error.                       *)
(***************************************************************************)
C10_DirectOnly ==
  \A p \in Procs :
    LET rec == procs[p]
    IN (rec.entry = E_ROUTER /\ ~rec.useRelay)
       => /\ rec.fetches = 0
          /\ rec.relayRequests = 0
          /\ ~rec.relayEnv.sent
          /\ rec.fn = "directE"
          /\ rec.directSubmissions <= 1
          /\ rec.outcome = "returned" => rec.directSubmissions = 1
          /\ (rec.pc = "done" /\ rec.directSubmissions = 0) => rec.outcome = "thrown"

C10_Witness ==
  \E p \in Procs :
    /\ procs[p].entry = E_ROUTER
    /\ ~procs[p].useRelay
    /\ procs[p].outcome = "returned"
    /\ procs[p].directSubmissions = 1
    /\ procs[p].directEnv.sent

(***************************************************************************)
(* C11: a retryable relay failure is never what the caller of              *)
(* executeRelayCall observes.  An invocation that has ended has either     *)
(* returned a result or thrown an error, and an error it throws is one of  *)
(* the direct path (the relay's failure was caught and resolved by the     *)
(* direct attempt first); and every invocation whose awaited calls settle  *)
(* does end.                                                               *)
(***************************************************************************)
RetryableResolved(rec) ==
  /\ rec.outcome \in {"returned", "thrown"}
  /\ rec.outcome = "returned" => (rec.result # "none" /\ rec.error = "none")
  /\ rec.outcome = "thrown" =>
       /\ rec.fn = "directE"
       /\ rec.error \notin {"none", "Relay error", "SyntaxError"}
  /\ (rec.useRelay /\ rec.relay # "ok") => rec.fn = "directE"

C11_RetryableResolved ==
  \A p \in Procs :
    /\ []((procs[p].entry = E_ROUTER /\ procs[p].pc = "done")
            => RetryableResolved(procs[p]))
    /\ (procs[p].entry = E_ROUTER) ~> (procs[p].pc = "done")

C11_Witness ==
  \E p \in Procs :
    /\ procs[p].entry = E_ROUTER
    /\ procs[p].useRelay
    /\ procs[p].relay = "unauthorized"
    /\ procs[p].pc = "done"
    /\ procs[p].outcome = "thrown"
    /\ procs[p].directSubmissions = 1

(***************************************************************************)
(* C12: two envelopes built by concurrently running invocations for the    *)
(* same controller and the same channel are never signed with the same     *)
(* nonce: while two invocations both hold a signed envelope for the same   *)
(* key manager and channel, their nonces differ.                           *)
(***************************************************************************)
HoldsEnvelope(rec) == rec.pc \in {"fetch", "json", "send", "wait"}

C12_DistinctNonces ==
  \A p, q \in Procs :
    (/\ p # q
     /\ HoldsEnvelope(procs[p])
     /\ HoldsEnvelope(procs[q])
     /\ procs[p].kmNonce = procs[q].kmNonce
     /\ procs[p].channel = procs[q].channel)
    => procs[p].nonce # procs[q].nonce

(***************************************************************************)
(* C13: the nonces of channel 0 and channel 1 of the same signer are       *)
(* independent counters.  Two invocations that hold signed envelopes at    *)
(* the same time, one per channel, never hold the same nonce (each nonce   *)
(* carries the channel it was asked for), and a step that consumes a nonce *)
(* of one channel leaves the next nonce of the other channel unchanged.    *)
(***************************************************************************)
ChannelsNeverCollide ==
  \A p, q \in Procs :
    (/\ p # q
     /\ HoldsEnvelope(procs[p])
     /\ HoldsEnvelope(procs[q])
     /\ procs[p].channel # procs[q].channel)
    => /\ procs[p].nonce # procs[q].nonce
       /\ procs[p].nonce.ch = procs[p].channel
       /\ procs[q].nonce.ch = procs[q].channel

OtherChannelUntouched ==
  \A k \in KeyManagers : \A c \in Channels :
    chainNonce'[k][c] # chainNonce[k][c]
      => \A c2 \in Channels \ {c} : chainNonce'[k][c2] = chainNonce[k][c2]

C13_ChannelsIndependent ==
  /\ []ChannelsNeverCollide
  /\ [][OtherChannelUntouched]_vars

C13_Witness ==
  \E p, q \in Procs :
    /\ procs[p].channel = 0
    /\ procs[q].channel = 1
    /\ procs[p].pc = "wait"
    /\ procs[q].pc = "wait"
    /\ procs[p].km = procs[q].km
    /\ procs[p].receiptStatus = 1
    /\ procs[q].receiptStatus = 1
    /\ procs[p].nonce.seq = procs[q].nonce.seq

(***************************************************************************)
(* C14: after a direct submission with nonce n has succeeded, any later    *)
(* relay or direct attempt that carries the same nonce n ends with a       *)
(* stale-nonce failure reported to the caller (a thrown error, or a result *)
(* whose status is reverted) and never with a reported success.  (The test *)
(* script has no caller, it prints the relay's answer: it is left out.)    *)
(***************************************************************************)
SucceededDirectly(rec, nonce) ==
  /\ rec.directEnv.sent
  /\ rec.receiptStatus = 1
  /\ rec.directEnv.nonce = nonce

C14_StaleNonceReported ==
  \A p, q \in Procs : \A env \in Submitted(procs[p]) :
    (/\ p # q
     /\ procs[p].entry # E_TEST
     /\ env.stale
     /\ SucceededDirectly(procs[q], env.nonce)
     /\ procs[p].pc = "done")
    => \/ procs[p].outcome = "thrown"
       \/ procs[p].outcome = "returned" /\ procs[p].result = "reverted"

(***************************************************************************)
(* C15: in every execution the validator address is resolved from the      *)
(* account's owner() during that invocation, and the address the nonce is  *)
(* read from, the address bound into the digest and the address the direct *)
(* transaction is sent to are one and the same, also when the account      *)
(* changes its manager while the execution is in progress.                 *)
(***************************************************************************)
C15_OneValidatorAddress ==
  \A p \in Procs :
    LET rec == procs[p]
    IN /\ rec.signature # NoSig =>
            /\ rec.km.id \in KeyManagers
            /\ rec.kmNonce = rec.km
            /\ SubSeq(rec.signature.digest.keccak, 3, 22) = GetBytes(rec.km)
       /\ rec.directEnv.sent =>
            /\ rec.directEnv.km = rec.kmNonce
            /\ SubSeq(rec.directEnv.signature.digest.keccak, 3, 22)
                 = GetBytes(rec.directEnv.km)

(***************************************************************************)
(* C16: for every private key, validator address and encoded message,      *)
(* verifyLSP25Signature applied to the output of signLSP25Message returns  *)
(* the address of that private key, and the signature is 65 bytes: r, s    *)
(* and v.                                                                  *)
(***************************************************************************)
C16_SignVerifyRoundTrip ==
  /\ fstage \in {"signed", "verified"} =>
       /\ Len(Serialized(fsig)) = 65
       /\ SubSeq(Serialized(fsig), 1, 32) = SigR(fsig)
       /\ SubSeq(Serialized(fsig), 33, 64) = SigS(fsig)
       /\ Serialized(fsig)[65] \in {27, 28}
  /\ fstage = "verified" => frecovered = Addr(AddressOf(fin.key), FALSE)

C16_Witness ==
  /\ fstage = "verified"
  /\ fin.key = "key2"
  /\ fin.validator = Addr("km2", TRUE)
  /\ Len(fin.payload) = MaxPayloadLen
  /\ frecovered.id = "ctrl2"

(***************************************************************************)
(* C17: two envelopes that differ in exactly one of nonce, value, validity *)
(* window, payload or chain id have different digests, and a signature     *)
(* computed for the first does not recover the controller against the      *)
(* second.  (signRelayCall takes the nonce, the validity window and the    *)
(* payload: its digests differ when one of these differs.)                 *)
(***************************************************************************)
DiffersInSigned(e1, e2) ==
  \/ e1.nonce # e2.nonce
  \/ e1.validityTimestamps # e2.validityTimestamps
  \/ e1.payload # e2.payload

C17_FieldSensitivity ==
  /\ fstage \in {"encoded", "hashed", "signed", "verified"} => fmsg2 # fmsg
  /\ fstage \in {"hashed", "signed", "verified"} => fdigest2 # fdigest
  /\ fstage \in {"signed", "verified"} =>
       (DiffersInSigned(fin, fin2) =>
          /\ fviem2.digest # fviem.digest
          /\ recoverAddress(fviem2.digest, fviem).id # AddressOf(PRIVATE_KEY))
  /\ fstage = "verified" =>
       /\ frecovered.id = AddressOf(fin.key)
       /\ frecovered2.id # AddressOf(fin.key)

C17_Witness ==
  /\ fstage = "verified"
  /\ fin2.value # fin.value
  /\ fin.nonce = Nonce(1, 258)
  /\ frecovered.id = KeyAddress
  /\ frecovered2.id = "stranger"

(***************************************************************************)
(* C18: the local verifier compares the recovered address with the         *)
(* expected controller address case-insensitively: in every path that      *)
(* verifies, a correct signature (one that recovers the account the        *)
(* configured controller address denotes) is accepted whatever the letter  *)
(* case of the configured address.                                         *)
(***************************************************************************)
VerifyingFns == {"relayE", "directE", "transfer"}

C18_CaseInsensitiveCompare ==
  \A p \in Procs :
    LET rec == procs[p]
    IN (/\ rec.fn \in VerifyingFns
        /\ rec.signature # NoSig
        /\ recoverAddress(rec.signature.digest, rec.signature).id = controller.id)
       => rec.error # "Signature verification failed"

(***************************************************************************)
(* C19: every relay submission request carries the account address, the    *)
(* payload, the signature, the nonce and the validity window, and the      *)
(* payload, nonce and validity window in the request are exactly the       *)
(* values covered by the signature (a non-zero validityTimestamps that was *)
(* signed is also transmitted).  A request without a validity window is    *)
(* read as one with the window 0, as the relay reads it.                   *)
(***************************************************************************)
SignedNonce(signature) ==
  Nonce(FromBE(SubSeq(signature.digest.keccak, 87, 102)),
        FromBE(SubSeq(signature.digest.keccak, 103, 118)))
SignedValidity(signature) == FromBE(SubSeq(signature.digest.keccak, 119, 150))
SignedPayload(signature) ==
  SubSeq(signature.digest.keccak, 183, Len(signature.digest.keccak))

C19_RequestCarriesSigned ==
  \A p \in Procs :
    LET env == procs[p].relayEnv
    IN env.sent =>
         /\ env.address = UP_ADDRESS
         /\ env.signature # NoSig
         /\ env.payload = SignedPayload(env.signature)
         /\ env.nonce = SignedNonce(env.signature)
         /\ env.validityTimestamps = SignedValidity(env.signature)

(***************************************************************************)
(* C20: the direct path waits for inclusion and returns a result whose     *)
(* outcome is success exactly when the receipt's status indicates success  *)
(* and failed (reverted) otherwise, together with the transaction hash and *)
(* the gas used taken from that receipt.                                   *)
(***************************************************************************)
C20_ResultFromReceipt ==
  \A p \in Procs :
    LET rec == procs[p]
    IN (rec.fn \in DirectFns /\ rec.pc = "done" /\ rec.receiptRead)
       => /\ rec.outcome = "returned"
          /\ rec.result = "success" <=> rec.receiptStatus = 1
          /\ rec.result \in {"success", "failed", "reverted"}
          /\ rec.transactionHash = rec.txHash
          /\ ParseInt(rec.resultGasUsed) = rec.gasUsed

(***************************************************************************)
(* C21: permission gate: a permission mask that contains only the super    *)
(* bit of a capability (SUPER_TRANSFERVALUE 0x100 without TRANSFERVALUE    *)
(* 0x200) passes a check that requires the corresponding restricted bit,   *)
(* and a mask that contains neither bit fails it.                          *)
(***************************************************************************)
\* the mask holds the bit (a power of two)
Contains(mask, bit) == (mask \div bit) % 2 = 1

C25_QuotaQuerySigned ==
  quota.sent =>
    /\ quota.address = UP_ADDRESS
    /\ quota.timestamp \in {MathFloor(quota.at), MathFloor(quota.at) + 1}
    /\ quota.signature.key = PRIVATE_KEY
    /\ quota.signature.digest
         = Keccak256(GetBytes(Addr(quota.address, FALSE)) \o BE(quota.timestamp, 32))

(***************************************************************************)
(* C22: every fatal error surfaced names the specific missing permission   *)
(* or protocol condition: when the relay rejects a submission as           *)
(* unauthorized (HTTP 401) the error names the missing SIGN permission,    *)
(* and when the chain rejects a value transfer as not authorised the error *)
(* names SUPER_TRANSFERVALUE; no such rejection is surfaced as a generic   *)
(* failure.                                                                *)
(***************************************************************************)
NamesSign(error) == error = "Relayer requires SIGN permission (0x200000)"
NamesSuperTransferValue(error) == error = SUPER_TRANSFERVALUE_REQUIRED

\* the relay answered 401 and the invocation ended with an error of the
\* relay function
RelayRejected401(rec) ==
  /\ rec.pc = "done" /\ rec.outcome = "thrown"
  /\ rec.fn \in RelayFns
  /\ rec.response.status = 401 /\ rec.response.readable

\* the key manager rejected the value transfer of the invocation as not
\* authorised
TransferNotAuthorised(rec) ==
  /\ rec.pc = "done" /\ rec.outcome = "thrown"
  /\ rec.directEnv.sent
  /\ TransfersValue(rec.directEnv.payload)
  /\ ~Authorised(rec.directEnv.payload)

C22_ErrorNamesPermission ==
  \A p \in Procs :
    /\ RelayRejected401(procs[p]) => NamesSign(procs[p].error)
    /\ TransferNotAuthorised(procs[p]) => NamesSuperTransferValue(procs[p].error)

(***************************************************************************)
(* C23: every failure in the network stage (relay HTTP request, response   *)
(* parsing, transaction submission, waiting for the receipt) reaches the   *)
(* caller classified into the error taxonomy (RelayUnauthorized,           *)
(* QuotaExceeded, NonceStale, ValidityExpired, NetworkUnavailable,         *)
(* PermissionDenied) and never as a raw transport error.                   *)
(***************************************************************************)
\* the errors of the program that name a cause of the taxonomy
Classified(error) == NamesSign(error) \/ NamesSuperTransferValue(error)

\* the invocation of an exported function ended with an error thrown after
\* its relay request or its transaction had been handed to the network
FailedInNetworkStage(rec) ==
  /\ rec.pc = "done" /\ rec.outcome = "thrown"
  /\ \/ rec.fn \in {"relayE", "relayV"} /\ rec.fetches > 0
     \/ rec.fn \in DirectFns /\ rec.directSubmissions > 0

C23_NetworkErrorsClassified ==
  \A p \in Procs : FailedInNetworkStage(procs[p]) => Classified(procs[p].error)

(***************************************************************************)
(* C24: the controller's private key never appears in any diagnostic       *)
(* output, error message, returned result or request body produced by the  *)
(* engine, on any path including the verbose, failure and fallback paths;  *)
(* only signatures derived from it leave the process.                      *)
(***************************************************************************)
C24_KeyNeverWritten ==
  \A p \in Procs :
    \A item \in Outputs(procs[p]) :
      /\ item.text # PRIVATE_KEY
      /\ item.text = "signature" =>
           \E env \in {procs[p].relayEnv, procs[p].directEnv} :
             /\ env.sent
             /\ env.signature.key = PRIVATE_KEY
             /\ item.bytes = Serialized(env.signature)

\* an invocation that tried the relay, fell back and failed on the direct
\* path after it had submitted
C24_Witness ==
  \E p \in Procs :
    /\ procs[p].pc = "done" /\ procs[p].outcome = "thrown"
    /\ procs[p].relayEnv.sent /\ procs[p].directEnv.sent
    /\ Cardinality(Outputs(procs[p])) > 10

(***************************************************************************)
(* C26: in every execution the steps happen in the order: resolve the key  *)
(* manager, read the nonce for (controller, channel) from the chain,       *)
(* encode, hash, sign, then submit; the signed nonce is always one read    *)
(* from the chain within the same invocation (never a value kept from an   *)
(* earlier invocation) and no submission precedes signing.                 *)
(***************************************************************************)
\* invocation p hands a request or a transaction to the network in this step
Submits(p) ==
  \/ procs'[p].relayEnv # procs[p].relayEnv
  \/ procs'[p].directEnv # procs[p].directEnv

C26_StepOrder ==
  [][\A p \in Procs :
       \* the nonce is read once the key manager is resolved
       /\ (procs[p].pc # "nonce" /\ procs'[p].pc = "nonce")
            => (procs[p].pc \in {"owner", "owner2", "balance"} /\ procs'[p].km # NoAddr)
       \* what is signed is the nonce the chain holds when it is read
       /\ (procs[p].pc \notin {"fetch", "send"} /\ procs'[p].pc \in {"fetch", "send"})
            => /\ procs[p].pc = "nonce"
               /\ procs'[p].signature # NoSig
               /\ SignedNonce(procs'[p].signature)
                    = getNonce(procs[p].kmNonce, controller, procs[p].channel)
       \* what is submitted is the signature made in this invocation
       /\ Submits(p)
            => /\ procs[p].pc \in {"fetch", "send"}
               /\ procs[p].signature # NoSig
               /\ \A env \in {procs'[p].relayEnv, procs'[p].directEnv} \
                              {procs[p].relayEnv, procs[p].directEnv} :
                    env.signature = procs[p].signature]_vars

\* an invocation that submitted to the relay, fell back, read the nonce
\* again and submitted directly
C26_Witness ==
  \E p \in Procs :
    /\ procs[p].pc = "done"
    /\ procs[p].relayEnv.sent /\ procs[p].directEnv.sent
    /\ procs[p].directEnv.nonce # procs[p].relayEnv.nonce

(***************************************************************************)
(* C27: when executeRelayCall is called with useRelay = true and the relay *)
(* accepts the submission (the relay attempt returns its response), the    *)
(* relay's result is returned and the direct path is not attempted: the    *)
(* relay is tried first and the direct path runs only after the relay      *)
(* attempt has failed.                                                     *)
(***************************************************************************)
RelayFirst(rec) == rec.entry = E_ROUTER /\ rec.useRelay

\* executeRelayCallRelay returned the relay's response
RelayAttemptSucceeded(rec) == rec.relay = "ok" /\ rec.response.readable

C27_RelayResultReturned ==
  /\ [](\A p \in Procs :
          (RelayFirst(procs[p]) /\ RelayAttemptSucceeded(procs[p]))
            => /\ procs[p].pc = "done"
               /\ procs[p].outcome = "returned"
               /\ procs[p].result \in {"transactionHash", "empty"}
               /\ procs[p].fn = "relayE"
               /\ procs[p].directSubmissions = 0
               /\ ~procs[p].directEnv.sent)
  /\ [][\A p \in Procs :
          RelayFirst(procs'[p]) =>
            \* the relay is tried first
            /\ (procs[p].pc = "idle" /\ procs'[p].pc # "idle")
                 => procs'[p].fn = "relayE"
            \* the direct path starts only when the relay attempt fails
            /\ (procs[p].fn # "directE" /\ procs'[p].fn = "directE")
                 => /\ procs[p].fn = "relayE"
                    /\ procs[p].pc \in {"owner", "nonce", "fetch", "json"}
                    /\ ~RelayAttemptSucceeded(procs'[p])
                    /\ procs'[p].pc = "owner"]_vars

C27_Witness ==
  \E p \in Procs :
    /\ RelayFirst(procs[p]) /\ RelayAttemptSucceeded(procs[p])
    /\ procs[p].executions = 1
    /\ procs[p].result = "transactionHash"

(***************************************************************************)
(* C28: for every direct execution, the native value encoded into the      *)
(* signed envelope equals the native value attached to the                 *)
(* executeRelayCall transaction sent to the key manager, for every value   *)
(* option the caller may pass (not only 0).                                *)
(***************************************************************************)
SignedValue(signature) == FromBE(SubSeq(signature.digest.keccak, 151, 182))

C28_SignedValueAttached ==
  \A p \in Procs :
    procs[p].directEnv.sent
      => SignedValue(procs[p].directEnv.signature) = procs[p].directEnv.value

(***************************************************************************)
(* C29: the chain id encoded into the signed envelope is the chain id of   *)
(* the network the envelope is submitted to; in particular                 *)
(* executeRelayCallRelay with useTestnet = true signs for the testnet      *)
(* chain id and not for the mainnet one.                                   *)
(***************************************************************************)
SignedChainId(signature) == FromBE(SubSeq(signature.digest.keccak, 55, 86))

C29_SignedChainIsSubmittedChain ==
  \A p \in Procs :
    \A env \in {procs[p].relayEnv, procs[p].directEnv} :
      env.sent => SignedChainId(env.signature) = env.chainId

(***************************************************************************)
(* C30: the nonce written into a relay request body denotes the same       *)
(* integer as the nonce that was signed, for every nonce the key manager   *)
(* can return (a uint256), including values at or above 2^53 such as those *)
(* of non-zero channels.                                                   *)
(***************************************************************************)
C30_RequestNonceIsSignedNonce ==
  \A p \in Procs :
    procs[p].relayEnv.sent
      => procs[p].relayEnv.nonce = SignedNonce(procs[p].relayEnv.signature)

(***************************************************************************)
(* C31: when authorize builds the controller data, a controller with no    *)
(* permissions stored is placed at the array index equal to the current    *)
(* on-chain length of the controllers array, and a controller that already *)
(* has non-zero permissions is updated without any array operation; also   *)
(* when the read of the permissions or of the length fails.                *)
(***************************************************************************)
Builds(c) == ~calls[c].data.built /\ calls'[c].data.built

C31_IndexIsChainLength ==
  [][\A c \in Calls :
       Builds(c) =>
         LET data == calls'[c].data
         IN IF acPerms[data.controllerAddress] > 0
            THEN data.skipArrayOps
            ELSE ~data.skipArrayOps /\ data.currentLength = Len(acList)]_vars

(***************************************************************************)
(* C32: two authorize calls that are in flight at the same time for two    *)
(* different new controllers have not built their data for the same index  *)
(* of the controllers array.                                               *)
(***************************************************************************)
InFlightNew(c) ==
  /\ calls[c].pc \in {"write", "wait"}
  /\ calls[c].data.built
  /\ ~calls[c].data.skipArrayOps
  /\ acPerms[calls[c].controllerAddress] = 0

C32_ConcurrentCallsDistinctIndex ==
  \A c, d \in Calls :
    (/\ c # d
     /\ InFlightNew(c)
     /\ InFlightNew(d)
     /\ calls[c].controllerAddress # calls[d].controllerAddress)
      => calls[c].data.currentLength # calls[d].data.currentLength

(***************************************************************************)
(* C33: in every reachable state of the hook, status 'success' implies     *)
(* that txHash is set and error is null, status 'error' implies that error *)
(* is a non-empty message, and status 'idle', 'preparing' or 'pending'     *)
(* implies that txHash and error are both null.                            *)
(***************************************************************************)
C33_StateConsistent ==
  /\ astate.status = "success" => astate.txHash # "null" /\ astate.error = "null"
  /\ astate.status = "error" => astate.error \notin {"null", ""}
  /\ astate.status \in {"idle", "preparing", "pending"}
       => astate.txHash = "null" /\ astate.error = "null"

C33_Witness ==
  /\ \E c \in Calls : calls[c].last = "success"
  /\ astate.status = "error"
  /\ astate.txHash # "null"

(***************************************************************************)
(* C34: the statuses one authorize call sets follow preparing -> pending   *)
(* -> (success | error) or preparing -> error; 'pending' is not set        *)
(* without a preceding 'preparing', 'success' is set only after a receipt  *)
(* with successful status, and with a client or the account address        *)
(* missing the call sets 'error' at once, with no chain read or write.     *)
(***************************************************************************)
StatusSteps ==
  {<<"none", "preparing">>, <<"preparing", "pending">>, <<"preparing", "error">>,
   <<"pending", "success">>, <<"pending", "error">>}

C34_StatusOrder ==
  [][\A c \in Calls :
       /\ calls'[c].last # calls[c].last =>
            IF clients.walletClient /\ clients.publicClient /\ clients.upAddress
            THEN <<calls[c].last, calls'[c].last>> \in StatusSteps
            ELSE calls[c].last = "none" /\ calls'[c].last = "error"
       /\ calls'[c].last = "success" => calls'[c].receipt = "success"
       /\ ~(clients.walletClient /\ clients.publicClient /\ clients.upAddress)
            => calls'[c].reads = 0 /\ calls'[c].writes = 0]_vars

C34_Witness ==
  \E c, d \in Calls :
    /\ calls[c].last = "success"
    /\ calls[c].receipt = "success"
    /\ calls[d].last = "error"
    /\ calls[d].receipt = "reverted"

C34_WitnessNoWallet ==
  /\ ~clients.walletClient
  /\ \E c \in Calls : calls[c].last = "error" /\ calls[c].pc = "done"

(***************************************************************************)
(* C35: once the state is idle with no txHash and no error, as reset       *)
(* leaves it, it stays so until the next authorize call starts, also when  *)
(* an earlier authorize call is still awaiting its transaction or receipt. *)
(***************************************************************************)
C35_IdleUntilNextAuthorize ==
  [][(astate = IdleState /\ astate' # IdleState)
       => \E c \in Calls : calls[c].pc = "idle" /\ calls'[c].pc # "idle"]_vars

C36_WitnessFollowed ==
  \E p \in Procs :
    /\ procs[p].entry = E_FOLLOW
    /\ procs[p].outcome = "returned"
    /\ procs[p].directSubmissions = 1

(***************************************************************************)
(* C37: transferViaRelay throws an insufficient-balance error, with no     *)
(* nonce read, no signature and no relay request made, when the balance it *)
(* read is below the requested amount; it returns the transaction hash     *)
(* only when the relay response is ok and carries a transactionHash, and   *)
(* ends by throwing in every other case.                                   *)
(***************************************************************************)
C37_BalanceCheckedFirst ==
  \A p \in Procs :
    LET rec == procs[p]
    IN rec.entry = E_TRANSFER =>
         /\ (rec.balance >= 0 /\ rec.balance < TransferAmount) =>
              /\ rec.pc = "done"
              /\ rec.outcome = "thrown"
              /\ rec.error = "Insufficient balance"
              /\ rec.nonce = NoNonce
              /\ rec.signature = NoSig
              /\ rec.relayRequests = 0
         /\ rec.error = "Insufficient balance" => rec.balance < TransferAmount
         /\ rec.outcome = "returned" =>
              /\ rec.response.status = 200
              /\ rec.result = "transactionHash"
         /\ rec.pc = "done" => rec.outcome \in {"returned", "thrown"}

C37_Witness ==
  \E p \in Procs :
    /\ procs[p].entry = E_TRANSFER
    /\ procs[p].balance = TransferAmount - 1
    /\ procs[p].error = "Insufficient balance"

C37_WitnessReturned ==
  \E p \in Procs :
    /\ procs[p].entry = E_TRANSFER
    /\ procs[p].balance = TransferAmount
    /\ procs[p].outcome = "returned"

(***************************************************************************)
(* C38: the digest hashDataWithIntendedValidator assembles in a byte array *)
(* and the digest the scripts build inline with concat(['0x19', '0x00',    *)
(* keyManager, encodedMessage]) are taken over the same byte sequence, for *)
(* every key manager address and encoded message, and so are equal.        *)
(***************************************************************************)
C38_InlineDigestSame ==
  fstage \in {"hashed", "signed", "verified"}
    => /\ fdigest = InlineDigest(fin.validator, fmsg)
       /\ fdigest2 = InlineDigest(fin.validator, fmsg2)

C38_Witness ==
  /\ fstage = "hashed"
  /\ fin.validator = Addr("km2", FALSE)
  /\ Len(fin.payload) = MaxPayloadLen
  /\ fdigest.keccak = <<25, 0>> \o GetBytes(fin.validator) \o fmsg

====
